---- MODULE Spec2Model ----
(***************************************************************************)
(* Model of MemoryTrackerSnapshotParser                                    *)
(* (src/trace_processor/importers/proto/memory_tracker_snapshot_parser.cc) *)
(*                                                                         *)
(* Strings that the parser splits or concatenates (node names, row paths)  *)
(* are sequences of one-character strings, so that SplitString and the     *)
(* path concatenation of the row emitter are computed, not assumed.        *)
(* The graph builder (GraphProcessor) is not part of the translated file;  *)
(* it is modelled from its contract.                                       *)
(***************************************************************************)
EXTENDS Integers, Sequences, FiniteSets, TLC

VARIABLES
  aggregate_raw_nodes_,            \* pid -> RawProcessMemoryNode (the window)
  last_snapshot_timestamp_,
  last_snapshot_level_of_detail_,
  context_,                        \* storage tables, args, stats, process tracker
  pc,                              \* "running" | "ended" | "aborted"
  dcheck_is_on,                    \* build flavour: PERFETTO_DCHECK compiled in
  calls,                           \* history: the parse calls made so far
  flushed                          \* history: windows handed to the graph builder

vars == <<aggregate_raw_nodes_, last_snapshot_timestamp_,
          last_snapshot_level_of_detail_, context_, pc,
          dcheck_is_on, calls, flushed>>

----------------------------------------------------------------------------
(* Bounds *)

MaxCalls == 3
MaxTs == 1

----------------------------------------------------------------------------
(* Generic helpers *)

\* base::nullopt, and an unset optional column
None == -1

Range(s) == {s[i] : i \in DOMAIN s}

RECURSIVE SeqOfSet(_)
SeqOfSet(S) ==
  IF S = {} THEN <<>>
  ELSE LET m == CHOOSE x \in S : \A y \in S : x <= y
       IN <<m>> \o SeqOfSet(S \ {m})

----------------------------------------------------------------------------
(* Program constants *)

kDetailed == 0
kLight == 1
kBackground == 2
kFirst == 0

level_of_detail_ids_ == <<"detailed", "light", "background">>
unit_ids_ == <<"objects", "bytes">>

kUnitsBytes == "bytes"
kUnitsObjects == "objects"

kWeak == 1
kDefault == 0

kSharedPid == 0

----------------------------------------------------------------------------
(* ReadProtoSnapshot: decoding of one chunk *)

\* The switch of lines 63-73 without the assignment of line 61 before it: an
\* unknown code leaves what the reference held.
DecodeLevelOfDetail_KeepsLast(code) ==
  CASE code = 0 -> kDetailed
    [] code = 1 -> kLight
    [] code = 2 -> kBackground
    [] OTHER -> last_snapshot_level_of_detail_

DecodeLevelOfDetail(code) ==
  CASE code = 0 -> kDetailed
    [] code = 1 -> kLight
    [] code = 2 -> kBackground
    [] OTHER -> kDetailed

DecodeUnit(code) ==
  CASE code = 1 -> kUnitsBytes
    [] code = 2 -> kUnitsObjects
    [] OTHER -> ""

\* One declared entry: the entry appended to the node's list (or none) and
\* the number of parser failures counted.
DecodeEntry(entry) ==
  LET unit == DecodeUnit(entry.units) IN
  IF entry.has_value_uint64
    THEN [entries |-> <<[name |-> entry.name, units |-> unit,
                         type |-> "kUInt64",
                         value_uint64 |-> entry.value_uint64,
                         value_string |-> ""]>>,
          failures |-> 0]
  ELSE IF entry.has_value_string
    THEN [entries |-> <<[name |-> entry.name, units |-> unit,
                         type |-> "kString", value_uint64 |-> 0,
                         value_string |-> entry.value_string]>>,
          failures |-> 0]
  ELSE [entries |-> <<>>, failures |-> 1]

\* The loop over the entries leaving at the first entry without a value.
RECURSIVE DecodeEntries_BreakOnFailure(_)
DecodeEntries_BreakOnFailure(wire) ==
  IF wire = <<>> THEN [entries |-> <<>>, failures |-> 0]
  ELSE LET h == DecodeEntry(Head(wire))
           t == DecodeEntries_BreakOnFailure(Tail(wire))
       IN IF h.failures > 0 THEN h
          ELSE [entries |-> h.entries \o t.entries,
                failures |-> t.failures]

RECURSIVE DecodeEntries(_)
DecodeEntries(wire) ==
  IF wire = <<>> THEN [entries |-> <<>>, failures |-> 0]
  ELSE LET h == DecodeEntry(Head(wire))
           t == DecodeEntries(Tail(wire))
       IN [entries |-> h.entries \o t.entries,
           failures |-> h.failures + t.failures]

\* RawMemoryGraphNode built from one allocator dump (lines 91-134).
DecodeNode(node, level_of_detail) ==
  LET size_entry ==
        IF node.has_size_bytes
          THEN <<[name |-> "size", units |-> kUnitsBytes,
                  type |-> "kUInt64", value_uint64 |-> node.size_bytes,
                  value_string |-> ""]>>
          ELSE <<>>
      d == DecodeEntries(node.entries)
  IN [node |-> [absolute_name |-> node.absolute_name,
                level_of_detail |-> level_of_detail,
                id |-> node.id,
                entries |-> size_entry \o d.entries,
                flags |-> IF node.weak THEN kWeak ELSE kDefault],
      failures |-> d.failures]

\* nodes_map.insert(make_pair(absolute_name, node)): std::map::insert keeps
\* the element already stored under the key.
NodesMapInsert(nodes_map, absolute_name, raw_graph_node) ==
  IF absolute_name \in DOMAIN nodes_map THEN nodes_map
  ELSE [n \in DOMAIN nodes_map \cup {absolute_name} |->
          IF n = absolute_name THEN raw_graph_node ELSE nodes_map[n]]

RECURSIVE DecodeNodes(_, _)
DecodeNodes(wire, level_of_detail) ==
  IF wire = <<>> THEN [nodes_map |-> <<>>, failures |-> 0]
  ELSE LET front == DecodeNodes(SubSeq(wire, 1, Len(wire) - 1), level_of_detail)
           d == DecodeNode(wire[Len(wire)], level_of_detail)
       IN [nodes_map |-> NodesMapInsert(front.nodes_map,
                                        d.node.absolute_name, d.node),
           failures |-> front.failures + d.failures]

\* MemoryGraphEdge built from one memory edge (lines 144-147).
DecodeEdge(edge) ==
  [source |-> edge.source_id, target |-> edge.target_id,
   importance |-> edge.importance, overridable |-> edge.overridable]

\* edges_map.insert(make_pair(source_id, edge)) on a container that is
\* multi-valued by source id: every edge is kept, ordered by source id and,
\* among equal source ids, by insertion.
EdgesMapInsert(edges_map, graph_edge) ==
  LET before == {i \in DOMAIN edges_map :
                   edges_map[i].source <= graph_edge.source}
      k == Cardinality(before)
  IN SubSeq(edges_map, 1, k) \o <<graph_edge>>
       \o SubSeq(edges_map, k + 1, Len(edges_map))

RECURSIVE DecodeEdges(_)
DecodeEdges(wire) ==
  IF wire = <<>> THEN <<>>
  ELSE EdgesMapInsert(DecodeEdges(SubSeq(wire, 1, Len(wire) - 1)),
                      DecodeEdge(wire[Len(wire)]))

\* raw_nodes.insert(make_pair(pid, raw_node)): the window maps a pid to one
\* RawProcessMemoryNode and insert keeps the one already stored.
RawNodesInsert(raw_nodes, pid, raw_node) ==
  IF pid \in DOMAIN raw_nodes THEN raw_nodes
  ELSE [p \in DOMAIN raw_nodes \cup {pid} |->
          IF p = pid THEN raw_node ELSE raw_nodes[p]]

RECURSIVE ReadProcessDumps(_, _, _)
ReadProcessDumps(dumps, raw_nodes, level_of_detail) ==
  IF dumps = <<>> THEN [raw_nodes |-> raw_nodes, failures |-> 0]
  ELSE LET dump == Head(dumps)
           n == DecodeNodes(dump.allocator_dumps, level_of_detail)
           raw_node == [level_of_detail |-> level_of_detail,
                        edges |-> DecodeEdges(dump.memory_edges),
                        nodes |-> n.nodes_map]
           rest == ReadProcessDumps(Tail(dumps),
                     RawNodesInsert(raw_nodes, dump.pid, raw_node),
                     level_of_detail)
       IN [raw_nodes |-> rest.raw_nodes,
           failures |-> n.failures + rest.failures]

\* ReadProtoSnapshot that leaves the level of detail of a window that already
\* holds data as it is.
ReadProtoSnapshot_KeepsWindowLevel(blob, raw_nodes) ==
  LET level_of_detail ==
        IF DOMAIN raw_nodes = {}
          THEN DecodeLevelOfDetail(blob.level_of_detail)
          ELSE last_snapshot_level_of_detail_
      r == ReadProcessDumps(blob.process_memory_dumps, raw_nodes,
                            level_of_detail)
  IN [raw_nodes |-> r.raw_nodes,
      level_of_detail |-> level_of_detail,
      failures |-> r.failures]

\* ReadProtoSnapshot reading the chunk into a window of its own.
ReadProtoSnapshot_IntoEmptyWindow(blob, raw_nodes) ==
  LET level_of_detail == DecodeLevelOfDetail(blob.level_of_detail)
      r == ReadProcessDumps(blob.process_memory_dumps, <<>>,
                            level_of_detail)
  IN [raw_nodes |-> r.raw_nodes,
      level_of_detail |-> level_of_detail,
      failures |-> r.failures]

\* The whole of ReadProtoSnapshot: the merged window, the level of detail
\* written through the reference, and the parser failures counted.
ReadProtoSnapshot(blob, raw_nodes) ==
  LET level_of_detail == DecodeLevelOfDetail(blob.level_of_detail)
      r == ReadProcessDumps(blob.process_memory_dumps, raw_nodes,
                            level_of_detail)
  IN [raw_nodes |-> r.raw_nodes,
      level_of_detail |-> level_of_detail,
      failures |-> r.failures]

----------------------------------------------------------------------------
(* Strings *)

\* The characters used by the modelled inputs, in character-code order.
Alphabet == <<"/", "b", "g", "h", "m", "s">>

CharRank(c) == CHOOSE i \in DOMAIN Alphabet : Alphabet[i] = c

\* std::string operator< (lexicographic).
RECURSIVE StrLess(_, _)
StrLess(a, b) ==
  IF b = <<>> THEN FALSE
  ELSE IF a = <<>> THEN TRUE
  ELSE IF Head(a) = Head(b) THEN StrLess(Tail(a), Tail(b))
  ELSE CharRank(Head(a)) < CharRank(Head(b))

\* The strings of S in ascending order: iteration order of a std::map keyed
\* by std::string.
RECURSIVE SortedStrings(_)
SortedStrings(S) ==
  IF S = {} THEN <<>>
  ELSE LET m == CHOOSE x \in S : \A y \in S \ {x} : StrLess(x, y)
       IN <<m>> \o SortedStrings(S \ {m})

\* Index of the first "/" of text, or Len(text) + 1.
FirstSlash(text) ==
  LET hits == {i \in DOMAIN text : text[i] = "/"}
  IN IF hits = {} THEN Len(text) + 1
     ELSE CHOOSE i \in hits : \A j \in hits : i <= j

\* Splits a name at "/"; empty tokens are skipped.
RECURSIVE SplitString(_)
SplitString(text) ==
  IF text = <<>> THEN <<>>
  ELSE LET k == FirstSlash(text)
           rest == SplitString(SubSeq(text, k + 1, Len(text)))
       IN IF k = 1 THEN rest ELSE <<SubSeq(text, 1, k - 1)>> \o rest

----------------------------------------------------------------------------
(* GraphProcessor: the graph builder, modelled from its contract *)

kGlobalToken == <<"g">>            \* first segment of a shared ("global") node
kImplicitNodeId == 0               \* identity of a node no dump declared

Prefixes(segs) == {SubSeq(segs, 1, k) : k \in 1..Len(segs)}

IsGlobalName(name) ==
  LET segs == SplitString(name) IN segs # <<>> /\ Head(segs) = kGlobalToken

\* Tree position of a raw node: the segments of its name, without the global
\* token for a shared node.
NodeSegs(name) ==
  LET segs == SplitString(name)
  IN IF IsGlobalName(name) THEN Tail(segs) ELSE segs

\* Entries of a graph node: keyed by name, the first entry of a name is kept;
\* units become the ScalarUnits index used by unit_ids_ (2: unspecified).
EntryUnits(units) ==
  CASE units = kUnitsObjects -> 0
    [] units = kUnitsBytes -> 1
    [] OTHER -> 2

GraphEntries(raw_entries) ==
  LET keys == {raw_entries[i].name : i \in DOMAIN raw_entries}
      first(k) == CHOOSE i \in DOMAIN raw_entries :
                    /\ raw_entries[i].name = k
                    /\ \A j \in DOMAIN raw_entries :
                         raw_entries[j].name = k => i <= j
  IN [k \in keys |-> [type |-> raw_entries[first(k)].type,
                      units |-> EntryUnits(raw_entries[first(k)].units),
                      value_uint64 |-> raw_entries[first(k)].value_uint64,
                      value_string |-> raw_entries[first(k)].value_string]]

\* CalculateSizesForGraph, reduced to the shape of its output: a node with a
\* numeric size also carries a numeric effective_size.
CalculateSizes(entries) ==
  IF /\ "size" \in DOMAIN entries
     /\ entries["size"].type = "kUInt64"
     /\ "effective_size" \notin DOMAIN entries
  THEN [k \in DOMAIN entries \cup {"effective_size"} |->
          IF k = "effective_size" THEN entries["size"] ELSE entries[k]]
  ELSE entries

\* A tree from a set of declared nodes, given as records [segs, raw].  Every
\* prefix of a declared position is a node; the root is the empty position
\* and is not stored.
BuildTree(declared) ==
  LET nodes == UNION {Prefixes(d.segs) : d \in declared}
      decl(s) == {d \in declared : d.segs = s}
  IN [nodes |-> nodes,
      id |-> [s \in nodes |->
                IF decl(s) = {} THEN kImplicitNodeId
                ELSE (CHOOSE d \in decl(s) : TRUE).raw.id],
      entries |-> [s \in nodes |->
                IF decl(s) = {} THEN <<>>
                ELSE CalculateSizes(
                       GraphEntries((CHOOSE d \in decl(s) : TRUE).raw.entries))]]

LocalDeclared(raw_process) ==
  {[segs |-> NodeSegs(n), raw |-> raw_process.nodes[n]] :
     n \in {m \in DOMAIN raw_process.nodes : ~IsGlobalName(m)}}

\* Shared nodes of all processes; the lowest pid declaring a position
\* provides its node.
SharedDeclared(raw_nodes) ==
  LET decls(p) == {n \in DOMAIN raw_nodes[p].nodes : IsGlobalName(n)}
      positions == {NodeSegs(n) : n \in UNION {decls(p) : p \in DOMAIN raw_nodes}}
      owner(s) == CHOOSE p \in DOMAIN raw_nodes :
                    /\ \E n \in decls(p) : NodeSegs(n) = s
                    /\ \A q \in DOMAIN raw_nodes :
                         (\E n \in decls(q) : NodeSegs(n) = s) => p <= q
  IN {[segs |-> s,
       raw |-> raw_nodes[owner(s)].nodes[
                 CHOOSE n \in decls(owner(s)) : NodeSegs(n) = s]] :
        s \in positions}

\* References to the nodes of a graph: the tree (the shared one, or that of
\* a pid) and the position in it.
DeclaredRefs(process_node_graphs, shared_memory_graph) ==
  UNION {{[shared |-> FALSE, pid |-> p, segs |-> s] :
            s \in process_node_graphs[p].nodes} :
           p \in DOMAIN process_node_graphs}
  \cup {[shared |-> TRUE, pid |-> kSharedPid, segs |-> s] :
          s \in shared_memory_graph.nodes}

TreeOf(graph, ref) ==
  IF ref.shared THEN graph.shared_memory_graph
  ELSE graph.process_node_graphs[ref.pid]

\* GlobalNodeGraph::Node::id()
NodeId(graph, ref) == TreeOf(graph, ref).id[ref.segs]

\* Raw edges of one process resolved against the graph; an edge whose source
\* or target id names no node of the graph is not part of the graph.
RECURSIVE ResolveEdges(_, _)
ResolveEdges(graph, raw_edges) ==
  IF raw_edges = <<>> THEN <<>>
  ELSE LET e == Head(raw_edges)
           refs == DeclaredRefs(graph.process_node_graphs,
                                graph.shared_memory_graph)
           src == {r \in refs : NodeId(graph, r) = e.source}
           tgt == {r \in refs : NodeId(graph, r) = e.target}
           rest == ResolveEdges(graph, Tail(raw_edges))
       IN IF src # {} /\ tgt # {} /\ e.source # kImplicitNodeId
                                  /\ e.target # kImplicitNodeId
          THEN <<[source |-> CHOOSE r \in src : TRUE,
                  target |-> CHOOSE r \in tgt : TRUE,
                  priority |-> e.importance]>> \o rest
          ELSE rest

RECURSIVE AllEdges(_, _, _)
AllEdges(graph, raw_nodes, pids) ==
  IF pids = <<>> THEN <<>>
  ELSE ResolveEdges(graph, raw_nodes[Head(pids)].edges)
         \o AllEdges(graph, raw_nodes, Tail(pids))

\* GraphProcessor::CreateMemoryGraph + CalculateSizesForGraph
GenerateGraph(raw_nodes) ==
  LET trees == [process_node_graphs |->
                  [p \in DOMAIN raw_nodes |->
                     BuildTree(LocalDeclared(raw_nodes[p]))],
                shared_memory_graph |-> BuildTree(SharedDeclared(raw_nodes))]
  IN [process_node_graphs |-> trees.process_node_graphs,
      shared_memory_graph |-> trees.shared_memory_graph,
      edges |-> AllEdges(trees, raw_nodes, SeqOfSet(DOMAIN raw_nodes))]

----------------------------------------------------------------------------
(* Collaborators reached through context_ *)

\* TraceStorage tables: a row's id is its index, counted from 0.  log records
\* the inserts of all tables in the order they were made.
Insert(ctx, table, row) ==
  LET id == Len(ctx[table])
  IN [ctx EXCEPT ![table] = Append(@, [row EXCEPT !.id = id]),
                 !.log = Append(@, [table |-> table, id |-> id])]

\* ProcessTracker::GetOrCreateProcess: the upid of a pid is the position at
\* which the pid was first seen, counted from 0.
UpidOf(processes, pid) ==
  IF pid \in Range(processes)
    THEN (CHOOSE i \in DOMAIN processes : processes[i] = pid) - 1
    ELSE Len(processes)

GetOrCreateProcess(ctx, pid) ==
  IF pid \in Range(ctx.processes) THEN ctx
  ELSE [ctx EXCEPT !.processes = Append(@, pid)]

kLegacyChromeGlobalInstantTrack == "legacy_chrome_global_instants"

----------------------------------------------------------------------------
(* EmitRows and its helpers.  The accumulator acc is                        *)
(* [ctx |-> context_, id_node_map |-> IdNodeMap].                           *)

\* id_node_map.emplace(make_pair(node.id(), node_row_id))
IdNodeMapEmplace(id_node_map, id, node_row_id) ==
  IF id \in DOMAIN id_node_map THEN id_node_map
  ELSE [k \in DOMAIN id_node_map \cup {id} |->
          IF k = id THEN node_row_id ELSE id_node_map[k]]

\* The args of an entry with the test of the key made before the switch on
\* the type.
EntryArgs_KeyBeforeType(node_row_id, key, entry) ==
  IF key = "size" \/ key = "effective_size" THEN {}
  ELSE IF entry.type = "kUInt64"
    THEN {[row |-> node_row_id, key |-> <<key, ".value">>,
           value |-> [type |-> "Integer", int_value |-> entry.value_uint64,
                      string_value |-> ""]]}
         \cup (IF entry.units < Len(unit_ids_)
                 THEN {[row |-> node_row_id, key |-> <<key, ".unit">>,
                        value |-> [type |-> "String", int_value |-> 0,
                                   string_value |->
                                     unit_ids_[entry.units + 1]]]}
                 ELSE {})
    ELSE {[row |-> node_row_id, key |-> <<key, ".value">>,
           value |-> [type |-> "String", int_value |-> 0,
                      string_value |-> entry.value_string]]}

\* The args added for one entry of a node (lines 277-306).
EntryArgs(node_row_id, key, entry) ==
  IF entry.type = "kUInt64"
    THEN IF key = "size" \/ key = "effective_size" THEN {}
         ELSE {[row |-> node_row_id, key |-> <<key, ".value">>,
                value |-> [type |-> "Integer", int_value |-> entry.value_uint64,
                           string_value |-> ""]]}
              \cup (IF entry.units < Len(unit_ids_)
                      THEN {[row |-> node_row_id, key |-> <<key, ".unit">>,
                             value |-> [type |-> "String", int_value |-> 0,
                                        string_value |->
                                          unit_ids_[entry.units + 1]]]}
                      ELSE {})
    ELSE {[row |-> node_row_id, key |-> <<key, ".value">>,
           value |-> [type |-> "String", int_value |-> 0,
                      string_value |-> entry.value_string]]}

\* The value a numeric entry named key sets in its column, if any.
ColumnOf(entries, key) ==
  IF key \in DOMAIN entries /\ entries[key].type = "kUInt64"
    THEN entries[key].value_uint64
    ELSE None

EmitNode(tree, segs, path, parent_node_row_id, proc_snapshot_row_id, acc) ==
  LET node_row_id == Len(acc.ctx.memory_snapshot_node_table)
      entries == tree.entries[segs]
      node_row == [id |-> node_row_id,
                   process_snapshot_id |-> proc_snapshot_row_id,
                   parent_node_id |-> parent_node_row_id,
                   path |-> path,
                   size |-> ColumnOf(entries, "size"),
                   effective_size |-> ColumnOf(entries, "effective_size")]
      ctx1 == Insert(acc.ctx, "memory_snapshot_node_table", node_row)
      ctx2 == [ctx1 EXCEPT !.args = @ \cup
                 UNION {EntryArgs(node_row_id, k, entries[k]) :
                          k \in DOMAIN entries}]
  IN [ctx |-> ctx2,
      id_node_map |-> IdNodeMapEmplace(acc.id_node_map, tree.id[segs],
                                       node_row_id)]

\* node.children(): the names of the children of the node at segs, in the
\* iteration order of the children map.
Children(tree, segs) ==
  SortedStrings({s[Len(s)] : s \in {t \in tree.nodes :
                   /\ Len(t) = Len(segs) + 1
                   /\ SubSeq(t, 1, Len(segs)) = segs}})

\* child_path of lines 243-246
ChildPath(path, name) ==
  (IF path # <<>> THEN path \o <<"/">> ELSE path) \o name

RECURSIVE EmitMemorySnapshotNodeRowsRecursively(_, _, _, _, _, _)
RECURSIVE EmitChildren(_, _, _, _, _, _, _)

\* The recursion handing its own parent's row id on to its children.
EmitMemorySnapshotNodeRowsRecursively_ParentOfParent(tree, segs, path, parent_node_row_id, proc_snapshot_row_id, acc) ==
  LET acc1 == IF path # <<>>
                THEN EmitNode(tree, segs, path, parent_node_row_id,
                              proc_snapshot_row_id, acc)
                ELSE acc
  IN EmitChildren(tree, segs, path, parent_node_row_id, proc_snapshot_row_id,
                  Children(tree, segs), acc1)

EmitMemorySnapshotNodeRowsRecursively(tree, segs, path, parent_node_row_id, proc_snapshot_row_id, acc) ==
  LET emit == path # <<>>
      node_id == IF emit THEN Len(acc.ctx.memory_snapshot_node_table)
                 ELSE None
      acc1 == IF emit
                THEN EmitNode(tree, segs, path, parent_node_row_id,
                              proc_snapshot_row_id, acc)
                ELSE acc
  IN EmitChildren(tree, segs, path, node_id, proc_snapshot_row_id,
                  Children(tree, segs), acc1)

\* The loop over the children appending to path itself instead of a copy.
EmitChildren_PathAccumulates(tree, segs, path, node_id, proc_snapshot_row_id, names, acc) ==
  IF names = <<>> THEN acc
  ELSE EmitChildren(tree, segs, ChildPath(path, Head(names)), node_id,
         proc_snapshot_row_id, Tail(names),
         EmitMemorySnapshotNodeRowsRecursively(
           tree, Append(segs, Head(names)), ChildPath(path, Head(names)),
           node_id, proc_snapshot_row_id, acc))

EmitChildren(tree, segs, path, node_id, proc_snapshot_row_id, names, acc) ==
  IF names = <<>> THEN acc
  ELSE EmitChildren(tree, segs, path, node_id, proc_snapshot_row_id,
         Tail(names),
         EmitMemorySnapshotNodeRowsRecursively(
           tree, Append(segs, Head(names)), ChildPath(path, Head(names)),
           node_id, proc_snapshot_row_id, acc))

EmitMemorySnapshotNodeRows(tree, proc_snapshot_row_id, acc) ==
  EmitMemorySnapshotNodeRowsRecursively(tree, <<>>, <<>>, None,
                                        proc_snapshot_row_id, acc)

\* The tree's rows inserted before the ProcessMemorySnapshot row they name.
EmitProcess_RowAfterNodes(pid, tree, snapshot_row_id, acc) ==
  LET ctx1 == GetOrCreateProcess(acc.ctx, pid)
      proc_snapshot_row_id == Len(ctx1.process_memory_snapshot_table)
      acc1 == EmitMemorySnapshotNodeRows(tree, proc_snapshot_row_id,
                                         [acc EXCEPT !.ctx = ctx1])
  IN [acc1 EXCEPT !.ctx =
        Insert(@, "process_memory_snapshot_table",
               [id |-> 0, upid |-> UpidOf(ctx1.processes, pid),
                snapshot_id |-> snapshot_row_id])]

\* One ProcessMemorySnapshot row for pid followed by the rows of its tree
\* (lines 183-192 and 199-207).
EmitProcess(pid, tree, snapshot_row_id, acc) ==
  LET ctx1 == GetOrCreateProcess(acc.ctx, pid)
      proc_snapshot_row_id == Len(ctx1.process_memory_snapshot_table)
      ctx2 == Insert(ctx1, "process_memory_snapshot_table",
                     [id |-> 0, upid |-> UpidOf(ctx1.processes, pid),
                      snapshot_id |-> snapshot_row_id])
  IN EmitMemorySnapshotNodeRows(tree, proc_snapshot_row_id,
                                [acc EXCEPT !.ctx = ctx2])

RECURSIVE EmitProcesses(_, _, _, _)
EmitProcesses(graph, pids, snapshot_row_id, acc) ==
  IF pids = <<>> THEN acc
  ELSE EmitProcesses(graph, Tail(pids), snapshot_row_id,
         EmitProcess(Head(pids), graph.process_node_graphs[Head(pids)],
                     snapshot_row_id, acc))

\* id_node_table.find(id)->second; dereferencing end() is undefined and reads
\* some value, here dangling.
IdNodeMapFind(id_node_map, id, dangling) ==
  IF id \in DOMAIN id_node_map THEN id_node_map[id] ELSE dangling

RECURSIVE EmitEdges(_, _, _, _)
EmitEdges(graph, edges, dangling, acc) ==
  IF edges = <<>> THEN acc
  ELSE LET it_edge == Head(edges)
           edge_row ==
             [id |-> 0,
              source_node_id |-> IdNodeMapFind(acc.id_node_map,
                                   NodeId(graph, it_edge.source), dangling),
              target_node_id |-> IdNodeMapFind(acc.id_node_map,
                                   NodeId(graph, it_edge.target), dangling),
              importance |-> it_edge.priority]
       IN EmitEdges(graph, Tail(edges), dangling,
            [acc EXCEPT !.ctx =
               Insert(@, "memory_snapshot_edge_table", edge_row)])

\* EmitRows without the row and the tree of the pseudo-process.
EmitRows_NoSharedProcess(ts, graph, level_of_detail, dangling, ctx) ==
  LET snapshot_row_id == Len(ctx.memory_snapshot_table)
      ctx1 == Insert(ctx, "memory_snapshot_table",
                     [id |-> 0, timestamp |-> ts,
                      track_id |-> kLegacyChromeGlobalInstantTrack,
                      detail_level |-> level_of_detail_ids_[level_of_detail + 1]])
      acc1 == EmitProcesses(graph, SeqOfSet(DOMAIN graph.process_node_graphs),
                            snapshot_row_id,
                            [ctx |-> ctx1, id_node_map |-> <<>>])
  IN EmitEdges(graph, graph.edges, dangling, acc1).ctx

\* EmitRows inserting the edges before the shared tree.
EmitRows_EdgesBeforeSharedTree(ts, graph, level_of_detail, dangling, ctx) ==
  LET snapshot_row_id == Len(ctx.memory_snapshot_table)
      ctx1 == Insert(ctx, "memory_snapshot_table",
                     [id |-> 0, timestamp |-> ts,
                      track_id |-> kLegacyChromeGlobalInstantTrack,
                      detail_level |-> level_of_detail_ids_[level_of_detail + 1]])
      acc1 == EmitProcesses(graph, SeqOfSet(DOMAIN graph.process_node_graphs),
                            snapshot_row_id,
                            [ctx |-> ctx1, id_node_map |-> <<>>])
      acc2 == EmitEdges(graph, graph.edges, dangling, acc1)
  IN EmitProcess(kSharedPid, graph.shared_memory_graph,
                 snapshot_row_id, acc2).ctx

EmitRows(ts, graph, level_of_detail, dangling, ctx) ==
  LET snapshot_row_id == Len(ctx.memory_snapshot_table)
      ctx1 == Insert(ctx, "memory_snapshot_table",
                     [id |-> 0, timestamp |-> ts,
                      track_id |-> kLegacyChromeGlobalInstantTrack,
                      detail_level |-> level_of_detail_ids_[level_of_detail + 1]])
      acc1 == EmitProcesses(graph, SeqOfSet(DOMAIN graph.process_node_graphs),
                            snapshot_row_id,
                            [ctx |-> ctx1, id_node_map |-> <<>>])
      acc2 == EmitProcess(kSharedPid, graph.shared_memory_graph,
                          snapshot_row_id, acc1)
      acc3 == EmitEdges(graph, graph.edges, dangling, acc2)
  IN acc3.ctx

----------------------------------------------------------------------------
(* Inputs: the chunks handed to ParseMemoryTrackerSnapshot *)

kHeap == <<"h">>
kBucket == <<"h", "/", "b">>
kMalloc == <<"m">>
kShared == <<"g", "/", "s">>
kDeep == <<"h", "/", "b", "/", "m">>

Names == <<kHeap, kBucket, kMalloc, kShared, kDeep>>

Pids == {7, 8}

\* Node ids are guids: a node of one process has an id no other node has, a
\* shared node has the same id in every process that declares it.
WireId(pid, name) ==
  LET i == CHOOSE k \in DOMAIN Names : Names[k] = name
  IN IF IsGlobalName(name) THEN 100 + i ELSE 10 * pid + i

UintEntry(name, units, value) ==
  [name |-> name, units |-> units, has_value_uint64 |-> TRUE,
   value_uint64 |-> value, has_value_string |-> FALSE, value_string |-> ""]

StringEntry(name, units, value) ==
  [name |-> name, units |-> units, has_value_uint64 |-> FALSE,
   value_uint64 |-> 0, has_value_string |-> TRUE, value_string |-> value]

EmptyEntry(name, units) ==
  [name |-> name, units |-> units, has_value_uint64 |-> FALSE,
   value_uint64 |-> 0, has_value_string |-> FALSE, value_string |-> ""]

WireNode(pid, name, weak, size, entries) ==
  [id |-> WireId(pid, name), absolute_name |-> name, weak |-> weak,
   has_size_bytes |-> size # None,
   size_bytes |-> IF size # None THEN size ELSE 0,
   entries |-> entries]

WireEdge(source_id, target_id, importance) ==
  [source_id |-> source_id, target_id |-> target_id,
   importance |-> importance, overridable |-> FALSE]

WireProcess(pid, nodes, edges) ==
  [pid |-> pid, allocator_dumps |-> nodes, memory_edges |-> edges]

WireChunk(level_of_detail, dumps) ==
  [level_of_detail |-> level_of_detail, process_memory_dumps |-> dumps]

Chunks == {
  \* process 7, "heap" with size 1000
  WireChunk(0, <<WireProcess(7,
     <<WireNode(7, kHeap, FALSE, 1000, <<>>)>>, <<>>)>>),
  \* process 7, "heap/bucket" with n_objects = 5 objects and a size that is a
  \* string, and an edge
  WireChunk(1, <<WireProcess(7,
     <<WireNode(7, kBucket, FALSE, None,
         <<UintEntry("n_objects", 2, 5), StringEntry("size", 1, "big")>>)>>,
     <<WireEdge(WireId(7, kBucket), WireId(7, kHeap), 1)>>)>>),
  \* process 8, "heap" declared twice and a shared node, two edges with one
  \* source
  WireChunk(2, <<WireProcess(8,
     <<WireNode(8, kHeap, TRUE, 2000, <<StringEntry("size", 0, "big")>>),
       WireNode(8, kHeap, FALSE, None, <<UintEntry("n_objects", 2, 7)>>),
       WireNode(8, kShared, TRUE, None, <<>>)>>,
     <<WireEdge(WireId(8, kHeap), WireId(7, kHeap), 2),
       WireEdge(WireId(8, kHeap), WireId(8, kShared), 0)>>)>>),
  \* two processes sharing a node, unknown level of detail
  WireChunk(3, <<WireProcess(7,
     <<WireNode(7, kShared, FALSE, 10, <<>>),
       WireNode(7, kBucket, FALSE, None, <<>>)>>,
     <<WireEdge(WireId(7, kBucket), WireId(7, kShared), 1)>>),
                 WireProcess(8,
     <<WireNode(8, kShared, FALSE, 20, <<>>)>>, <<>>)>>),
  \* no process at all
  WireChunk(1, <<>>),
  \* a process without nodes, and an edge between nodes nobody declared
  WireChunk(2, <<WireProcess(8, <<>>,
     <<WireEdge(WireId(8, kHeap), WireId(8, kBucket), 1)>>)>>),
  \* process 7 twice in one chunk; a malformed entry, an unknown unit
  WireChunk(0, <<WireProcess(7,
     <<WireNode(7, kHeap, FALSE, None,
         <<EmptyEntry("n_objects", 2), StringEntry("kind", 1, "x"),
           UintEntry("effective_size", 1, 3), UintEntry("ticks", 3, 9)>>)>>,
     <<>>),
                 WireProcess(7,
     <<WireNode(7, kMalloc, FALSE, 30, <<>>)>>, <<>>)>>),
  \* three nodes declared out of order
  WireChunk(1, <<WireProcess(8,
     <<WireNode(8, kMalloc, FALSE, 5, <<>>),
       WireNode(8, kDeep, FALSE, 6, <<>>),
       WireNode(8, kHeap, FALSE, 7, <<>>)>>,
     <<WireEdge(WireId(8, kMalloc), WireId(8, kDeep), 1),
       WireEdge(WireId(8, kHeap), WireId(8, kMalloc), 2),
       WireEdge(WireId(8, kMalloc), WireId(8, kHeap), 3)>>)>>)
}

Timestamps == 0..MaxTs

\* What a read through an end() iterator may yield.
Dangling == {-2, 0}

----------------------------------------------------------------------------
(* The parser *)

EmptyStorage ==
  [memory_snapshot_table |-> <<>>,
   process_memory_snapshot_table |-> <<>>,
   memory_snapshot_node_table |-> <<>>,
   memory_snapshot_edge_table |-> <<>>,
   args |-> {},
   stats |-> 0,
   processes |-> <<>>,
   log |-> <<>>]

Init ==
  /\ aggregate_raw_nodes_ = <<>>
  /\ last_snapshot_timestamp_ = -1
  /\ last_snapshot_level_of_detail_ = kFirst
  /\ context_ = EmptyStorage
  /\ pc = "running"
  /\ dcheck_is_on \in BOOLEAN
  /\ calls = <<>>
  /\ flushed = <<>>

Empty(raw_nodes) == DOMAIN raw_nodes = {}

\* GenerateGraphFromRawNodesAndEmitRows without the clear() of line 315.
GenerateGraphFromRawNodesAndEmitRows_WindowKept(ctx, raw_nodes, ts, level_of_detail, dangling) ==
  [ctx |-> EmitRows(ts, GenerateGraph(raw_nodes), level_of_detail,
                    dangling, ctx),
   raw_nodes |-> raw_nodes]

\* The context and the window after GenerateGraphFromRawNodesAndEmitRows.
GenerateGraphFromRawNodesAndEmitRows(ctx, raw_nodes, ts, level_of_detail, dangling) ==
  [ctx |-> EmitRows(ts, GenerateGraph(raw_nodes), level_of_detail,
                    dangling, ctx),
   raw_nodes |-> <<>>]

Flushed(upto) ==
  Append(flushed, [ts |-> last_snapshot_timestamp_,
                   level_of_detail |-> last_snapshot_level_of_detail_,
                   raw_nodes |-> aggregate_raw_nodes_,
                   calls |-> upto,
                   snapshot_id |-> Len(context_.memory_snapshot_table),
                   first_process_id |->
                     Len(context_.process_memory_snapshot_table),
                   first_node_id |-> Len(context_.memory_snapshot_node_table),
                   first_edge_id |-> Len(context_.memory_snapshot_edge_table),
                   first_log |-> Len(context_.log) + 1])

\* The flush test without its emptiness check.
FlushIfTimestampChanged_EmptyWindowToo(ts, dangling) ==
  IF ts # last_snapshot_timestamp_
    THEN GenerateGraphFromRawNodesAndEmitRows(
           context_, aggregate_raw_nodes_, last_snapshot_timestamp_,
           last_snapshot_level_of_detail_, dangling)
    ELSE [ctx |-> context_, raw_nodes |-> aggregate_raw_nodes_]

\* The flush test without the comparison of the timestamps.
FlushIfTimestampChanged_SameTimestampToo(ts, dangling) ==
  IF ~Empty(aggregate_raw_nodes_)
    THEN GenerateGraphFromRawNodesAndEmitRows(
           context_, aggregate_raw_nodes_, last_snapshot_timestamp_,
           last_snapshot_level_of_detail_, dangling)
    ELSE [ctx |-> context_, raw_nodes |-> aggregate_raw_nodes_]

\* The flush test taking only a later timestamp for a change.
FlushIfTimestampChanged_OnlyForward(ts, dangling) ==
  IF ~Empty(aggregate_raw_nodes_) /\ ts > last_snapshot_timestamp_
    THEN GenerateGraphFromRawNodesAndEmitRows(
           context_, aggregate_raw_nodes_, last_snapshot_timestamp_,
           last_snapshot_level_of_detail_, dangling)
    ELSE [ctx |-> context_, raw_nodes |-> aggregate_raw_nodes_]

\* The state after the flush test of lines 43-45.
FlushIfTimestampChanged(ts, dangling) ==
  IF ~Empty(aggregate_raw_nodes_) /\ ts # last_snapshot_timestamp_
    THEN GenerateGraphFromRawNodesAndEmitRows(
           context_, aggregate_raw_nodes_, last_snapshot_timestamp_,
           last_snapshot_level_of_detail_, dangling)
    ELSE [ctx |-> context_, raw_nodes |-> aggregate_raw_nodes_]

\* ParseMemoryTrackerSnapshot without the assignment of line 47.
ParseMemoryTrackerSnapshot_TimestampNotStored(ts, blob, dangling) ==
  /\ pc = "running"
  /\ Len(calls) < MaxCalls
  /\ IF dcheck_is_on /\ ~(last_snapshot_timestamp_ <= ts)
       THEN /\ pc' = "aborted"
            /\ UNCHANGED <<aggregate_raw_nodes_, last_snapshot_timestamp_,
                           last_snapshot_level_of_detail_, context_,
                           dcheck_is_on, calls, flushed>>
       ELSE LET f == FlushIfTimestampChanged(ts, dangling)
                r == ReadProtoSnapshot(blob, f.raw_nodes)
            IN /\ aggregate_raw_nodes_' = r.raw_nodes
               /\ last_snapshot_level_of_detail_' = r.level_of_detail
               /\ context_' = [f.ctx EXCEPT !.stats = @ + r.failures]
               /\ calls' = Append(calls, [ts |-> ts, blob |-> blob])
               /\ flushed' =
                    IF ~Empty(aggregate_raw_nodes_)
                         /\ ts # last_snapshot_timestamp_
                      THEN Flushed(Len(calls)) ELSE flushed
               /\ UNCHANGED <<pc, dcheck_is_on, last_snapshot_timestamp_>>

ParseMemoryTrackerSnapshot(ts, blob, dangling) ==
  /\ pc = "running"
  /\ Len(calls) < MaxCalls
  /\ IF dcheck_is_on /\ ~(last_snapshot_timestamp_ <= ts)
       THEN /\ pc' = "aborted"
            /\ UNCHANGED <<aggregate_raw_nodes_, last_snapshot_timestamp_,
                           last_snapshot_level_of_detail_, context_,
                           dcheck_is_on, calls, flushed>>
       ELSE LET f == FlushIfTimestampChanged(ts, dangling)
                r == ReadProtoSnapshot(blob, f.raw_nodes)
            IN /\ aggregate_raw_nodes_' = r.raw_nodes
               /\ last_snapshot_level_of_detail_' = r.level_of_detail
               /\ last_snapshot_timestamp_' = ts
               /\ context_' = [f.ctx EXCEPT !.stats = @ + r.failures]
               /\ calls' = Append(calls, [ts |-> ts, blob |-> blob])
               /\ flushed' =
                    IF ~Empty(aggregate_raw_nodes_)
                         /\ ts # last_snapshot_timestamp_
                      THEN Flushed(Len(calls)) ELSE flushed
               /\ UNCHANGED <<pc, dcheck_is_on>>

\* NotifyEndOfFile without its emptiness check.
NotifyEndOfFile_EmptyWindowToo(dangling) ==
  /\ pc \in {"running", "ended"}
  /\ pc' = "ended"
  /\ LET f == GenerateGraphFromRawNodesAndEmitRows(
                 context_, aggregate_raw_nodes_,
                 last_snapshot_timestamp_,
                 last_snapshot_level_of_detail_, dangling)
     IN /\ context_' = f.ctx
        /\ aggregate_raw_nodes_' = f.raw_nodes
        /\ flushed' = Flushed(Len(calls))
  /\ UNCHANGED <<last_snapshot_timestamp_, last_snapshot_level_of_detail_,
                 dcheck_is_on, calls>>

NotifyEndOfFile(dangling) ==
  /\ pc \in {"running", "ended"}
  /\ pc' = "ended"
  /\ IF ~Empty(aggregate_raw_nodes_)
       THEN LET f == GenerateGraphFromRawNodesAndEmitRows(
                       context_, aggregate_raw_nodes_,
                       last_snapshot_timestamp_,
                       last_snapshot_level_of_detail_, dangling)
            IN /\ context_' = f.ctx
               /\ aggregate_raw_nodes_' = f.raw_nodes
               /\ flushed' = Flushed(Len(calls))
       ELSE UNCHANGED <<context_, aggregate_raw_nodes_, flushed>>
  /\ UNCHANGED <<last_snapshot_timestamp_, last_snapshot_level_of_detail_,
                 dcheck_is_on, calls>>

Next ==
  \/ \E ts \in Timestamps, blob \in Chunks, dangling \in Dangling :
       ParseMemoryTrackerSnapshot(ts, blob, dangling)
  \/ \E dangling \in Dangling : NotifyEndOfFile(dangling)

Spec == Init /\ [][Next]_vars

----------------------------------------------------------------------------
(* EmitMemorySnapshotNodeRows on the trees a GlobalNodeGraph can hold: the  *)
(* emitter takes the root it is handed and reads names from the children   *)
(* map, whatever they are.                                                  *)

MaxTreeNodes == 3

\* Names of children, the empty name among them.
Segments == {<<>>, <<"b">>, <<"h">>}

\* The sets of at most n positions closed under taking the parent.
RECURSIVE TreeShapes(_)
TreeShapes(n) ==
  IF n = 0 THEN {{}}
  ELSE LET smaller == TreeShapes(n - 1)
       IN smaller \cup
          UNION {{t \cup {Append(parent, name)} :
                    parent \in t \cup {<<>>}, name \in Segments} :
                 t \in smaller}

\* Trees of nodes without entries that no dump declared.
Trees ==
  {[nodes |-> t,
    id |-> [n \in t |-> kImplicitNodeId],
    entries |-> [n \in t |-> <<>>]] : t \in TreeShapes(MaxTreeNodes)}

\* calls holds the input of the one call: the tree handed to the emitter.
InitEmit ==
  /\ aggregate_raw_nodes_ = <<>>
  /\ last_snapshot_timestamp_ = -1
  /\ last_snapshot_level_of_detail_ = kFirst
  /\ context_ = EmptyStorage
  /\ pc = "emitting"
  /\ dcheck_is_on = FALSE
  /\ calls \in {<<[tree |-> t]>> : t \in Trees}
  /\ flushed = <<>>

\* One call of EmitMemorySnapshotNodeRows with an empty id_node_map, for the
\* ProcessMemorySnapshot row 0.
EmitTree ==
  /\ pc = "emitting"
  /\ pc' = "emitted"
  /\ context_' =
       EmitMemorySnapshotNodeRows(calls[1].tree, 0,
         [ctx |-> context_, id_node_map |-> <<>>]).ctx
  /\ UNCHANGED <<aggregate_raw_nodes_, last_snapshot_timestamp_,
                 last_snapshot_level_of_detail_, dcheck_is_on, calls,
                 flushed>>

NextEmit == EmitTree

SpecEmit == InitEmit /\ [][NextEmit]_vars

----------------------------------------------------------------------------
(* History navigation used by the properties *)

\* The parse calls whose chunks were read into the k-th finalized window.
WindowCalls(k) ==
  ((IF k = 1 THEN 0 ELSE flushed[k - 1].calls) + 1)..flushed[k].calls

\* The parse calls read into the window that is still open.
OpenCalls ==
  ((IF flushed = <<>> THEN 0 ELSE flushed[Len(flushed)].calls) + 1)..Len(calls)

Dumps(i) == calls[i].blob.process_memory_dumps

RECURSIVE FlattenDumps(_, _)
FlattenDumps(lo, hi) ==
  IF lo > hi THEN <<>> ELSE Dumps(lo) \o FlattenDumps(lo + 1, hi)

\* All process dumps of the k-th window, in arrival order.
WindowDumps(k) ==
  FlattenDumps((IF k = 1 THEN 0 ELSE flushed[k - 1].calls) + 1,
               flushed[k].calls)

RECURSIVE NodesOfPid(_, _)
NodesOfPid(dumps, pid) ==
  IF dumps = <<>> THEN <<>>
  ELSE (IF Head(dumps).pid = pid THEN Head(dumps).allocator_dumps ELSE <<>>)
         \o NodesOfPid(Tail(dumps), pid)

RECURSIVE EdgesOfPid(_, _)
EdgesOfPid(dumps, pid) ==
  IF dumps = <<>> THEN <<>>
  ELSE (IF Head(dumps).pid = pid THEN Head(dumps).memory_edges ELSE <<>>)
         \o EdgesOfPid(Tail(dumps), pid)

WindowPids(k) == {d.pid : d \in Range(WindowDumps(k))}

\* The rows the k-th finalize inserted into a table, given the field of
\* flushed that holds the table's length before the finalize.
RowsOf(k, table, first) ==
  LET end == IF k < Len(flushed) THEN flushed[k + 1][first]
             ELSE Len(context_[table])
  IN {r \in Range(context_[table]) : flushed[k][first] <= r.id /\ r.id < end}

ProcessRows(k) ==
  RowsOf(k, "process_memory_snapshot_table", "first_process_id")

NodeRows(k) == RowsOf(k, "memory_snapshot_node_table", "first_node_id")

EdgeRows(k) == RowsOf(k, "memory_snapshot_edge_table", "first_edge_id")

ProcessRow(id) == context_.process_memory_snapshot_table[id + 1]

\* The Node rows of the k-th finalize in the tree of process pid.
NodeRowsOf(k, pid) ==
  {r \in NodeRows(k) :
     ProcessRow(r.process_snapshot_id).upid = UpidOf(context_.processes, pid)}

NodeRow(id) == context_.memory_snapshot_node_table[id + 1]

HasSlash(path) == \E i \in DOMAIN path : path[i] = "/"

\* The path without its last segment.
ParentPath(path) ==
  LET last == CHOOSE i \in DOMAIN path :
                path[i] = "/" /\ \A j \in DOMAIN path : path[j] = "/" => j <= i
  IN SubSeq(path, 1, last - 1)

----------------------------------------------------------------------------
(* C1 *)

\* C1: when chunks with the same timestamp carry data for the same process,
\* every node of every chunk of the window has its Node row in the finalized
\* snapshot (a node of a later chunk whose path is new is merged in), under
\* the row of its parent path.
C1_LaterChunkNodesMerged ==
  \A k \in DOMAIN flushed : \A i, j \in WindowCalls(k) :
    \A d \in Range(Dumps(j)) : \A n \in Range(d.allocator_dumps) :
      /\ i < j
      /\ \E e \in Range(Dumps(i)) : e.pid = d.pid
      /\ ~IsGlobalName(n.absolute_name)
      => \E r \in NodeRowsOf(k, d.pid) :
          /\ r.path = n.absolute_name
          /\ IF HasSlash(r.path)
               THEN /\ r.parent_node_id # None
                    /\ NodeRow(r.parent_node_id).path = ParentPath(r.path)
               ELSE r.parent_node_id = None

----------------------------------------------------------------------------
(* C2 *)

Sorted(cs) == \A i, j \in DOMAIN cs : i <= j => cs[i].ts <= cs[j].ts

\* The timestamps of the runs of same-timestamp chunks that carried a process.
NonEmptyRunTimestamps(cs) ==
  SeqOfSet({cs[i].ts : i \in {j \in DOMAIN cs :
                                cs[j].blob.process_memory_dumps # <<>>}})

SnapshotTimestamps ==
  [i \in DOMAIN context_.memory_snapshot_table |->
     context_.memory_snapshot_table[i].timestamp]

\* C2: with non-decreasing timestamps, the Snapshot rows, followed by the
\* window still open, are exactly the runs of same-timestamp chunks that
\* carried a process, one row per run with the run's timestamp; after the end
\* of the stream no window is left open.
C2_EachRunFinalizedOnce ==
  Sorted(calls) =>
    /\ SnapshotTimestamps
         \o (IF Empty(aggregate_raw_nodes_) THEN <<>>
             ELSE <<last_snapshot_timestamp_>>)
       = NonEmptyRunTimestamps(calls)
    /\ pc = "ended" => Empty(aggregate_raw_nodes_)

\* Two runs were finalized, the second by the end of the stream, and a chunk
\* without processes arrived in between.
C2_Witness ==
  /\ pc = "ended"
  /\ Sorted(calls)
  /\ Len(context_.memory_snapshot_table) = 2
  /\ \E i \in DOMAIN calls : calls[i].blob.process_memory_dumps = <<>>

----------------------------------------------------------------------------
(* C3 *)

LabelOfCode(code) ==
  CASE code = 1 -> "light"
    [] code = 2 -> "background"
    [] OTHER -> "detailed"

\* C3: the detail-level label of every Snapshot row is the level decoded from
\* the last chunk read into its window.
C3_LabelOfLastChunk ==
  \A k \in DOMAIN flushed :
    context_.memory_snapshot_table[flushed[k].snapshot_id + 1].detail_level
      = LabelOfCode(calls[flushed[k].calls].blob.level_of_detail)

\* A window of two chunks with different levels was flushed by a chunk of a
\* third level.
C3_Witness ==
  \E k \in DOMAIN flushed :
    /\ flushed[k].calls = 2 /\ Len(calls) = 3 /\ k = 1
    /\ calls[1].ts = calls[2].ts
    /\ calls[1].blob.process_memory_dumps # <<>>
    /\ Cardinality({LabelOfCode(calls[i].blob.level_of_detail) : i \in 1..3}) = 3
    /\ Len(context_.memory_snapshot_table) >= 1

----------------------------------------------------------------------------
(* C4 *)

\* The nodes process pid contributed to the k-th window, in arrival order.
Contributed(k, pid) == NodesOfPid(WindowDumps(k), pid)

\* The size column the entries of a wire node lead to.
WireSize(n) ==
  IF n.has_size_bytes THEN n.size_bytes
  ELSE IF \E e \in Range(n.entries) : e.name = "size"
    THEN LET e == n.entries[CHOOSE i \in DOMAIN n.entries :
                      /\ n.entries[i].name = "size"
                      /\ \A j \in DOMAIN n.entries :
                           n.entries[j].name = "size" => i <= j]
         IN IF e.has_value_uint64 THEN e.value_uint64 ELSE None
    ELSE None

\* Every argument of Node row r stems from an entry of wire node n.
ArgsFrom(r, n) ==
  \A a \in context_.args :
    a.row = r.id =>
      \E e \in Range(n.entries) :
        /\ e.name = a.key[1]
        /\ e.has_value_uint64 \/ e.has_value_string
        /\ a.key[2] = ".value" =>
             IF e.has_value_uint64
               THEN a.value.type = "Integer" /\ a.value.int_value = e.value_uint64
               ELSE a.value.type = "String"
                      /\ a.value.string_value = e.value_string

\* C4: when a process contributes a node at one path twice within a window,
\* the window holds the first of them unchanged, and the Node row of that path
\* carries the first node's entries only.
C4_FirstNodeWins ==
  \A k \in DOMAIN flushed : \A pid \in WindowPids(k) :
    LET ns == Contributed(k, pid)
        raw == flushed[k].raw_nodes[pid].nodes
    IN \A f, l \in DOMAIN ns :
         /\ f < l
         /\ ns[f].absolute_name = ns[l].absolute_name
         /\ \A j \in 1..(f - 1) : ns[j].absolute_name # ns[f].absolute_name
         => /\ ns[f].absolute_name \in DOMAIN raw
            /\ raw[ns[f].absolute_name].entries
                 = DecodeNode(ns[f], kDetailed).node.entries
            /\ ~IsGlobalName(ns[f].absolute_name) =>
                 \E r \in NodeRowsOf(k, pid) :
                   /\ r.path = ns[f].absolute_name
                   /\ r.size = WireSize(ns[f])
                   /\ ArgsFrom(r, ns[f])

----------------------------------------------------------------------------
(* C5 *)

\* C5: the window handed to the graph builder holds, for every process, every
\* edge of every chunk of the window: none is dropped, whether it shares its
\* source id with another edge or comes from a later chunk of a process that
\* is already in the window.
C5_AllEdgesRetained ==
  \A k \in DOMAIN flushed : \A pid \in WindowPids(k) :
    LET wire == EdgesOfPid(WindowDumps(k), pid)
        kept == flushed[k].raw_nodes[pid].edges
    IN /\ Len(kept) = Len(wire)
       /\ \A e \in Range(wire) :
            Cardinality({i \in DOMAIN kept : kept[i] = DecodeEdge(e)})
              = Cardinality({i \in DOMAIN wire : wire[i] = e})

----------------------------------------------------------------------------
(* C6 *)

\* No process has two dumps among the chunks of the k-th window.
DisjointProcesses(k) ==
  \A i, j \in DOMAIN WindowDumps(k) :
    i # j => WindowDumps(k)[i].pid # WindowDumps(k)[j].pid

\* C6: when the chunks of a window have pairwise disjoint process sets, the
\* finalize inserts one ProcessSnapshot row per process id of the window and
\* one more for the pseudo-process 0, all of them referencing the Snapshot
\* row of this finalize.
C6_OneRowPerProcess ==
  \A k \in DOMAIN flushed :
    DisjointProcesses(k) =>
      /\ \A pid \in WindowPids(k) \cup {kSharedPid} :
           Cardinality({r \in ProcessRows(k) :
                          r.upid = UpidOf(context_.processes, pid)}) = 1
      /\ Cardinality(ProcessRows(k)) = Cardinality(WindowPids(k)) + 1
      /\ \A r \in ProcessRows(k) : r.snapshot_id = flushed[k].snapshot_id

\* A window made of two chunks with one process each was finalized.
C6_Witness ==
  \E k \in DOMAIN flushed :
    /\ DisjointProcesses(k)
    /\ Cardinality(WindowCalls(k)) = 2
    /\ \A i \in WindowCalls(k) : Len(Dumps(i)) = 1
    /\ Cardinality(ProcessRows(k)) = 3

----------------------------------------------------------------------------
(* C7 *)

\* C7: a Node row without parent is a top-level node; any other Node row
\* names as parent a row inserted before it, of the same ProcessSnapshot row,
\* whose path is the row's path without its last segment.
C7_ParentEmittedBefore ==
  \A r \in Range(context_.memory_snapshot_node_table) :
    IF r.parent_node_id = None THEN ~HasSlash(r.path)
    ELSE /\ 0 <= r.parent_node_id /\ r.parent_node_id < r.id
         /\ NodeRow(r.parent_node_id).process_snapshot_id
              = r.process_snapshot_id
         /\ HasSlash(r.path)
         /\ NodeRow(r.parent_node_id).path = ParentPath(r.path)

\* A row two levels below a top-level row was emitted.
C7_Witness ==
  \E r \in Range(context_.memory_snapshot_node_table) :
    /\ r.parent_node_id # None
    /\ NodeRow(r.parent_node_id).parent_node_id # None

----------------------------------------------------------------------------
(* C8 *)

\* Segments joined by "/".
RECURSIVE JoinSegs(_)
JoinSegs(segs) ==
  IF segs = <<>> THEN <<>>
  ELSE IF Len(segs) = 1 THEN segs[1]
  ELSE segs[1] \o <<"/">> \o JoinSegs(Tail(segs))

\* The graph the k-th finalize emitted.
GraphOf(k) == GenerateGraph(flushed[k].raw_nodes)

\* The Node rows the k-th finalize produced for the graph node ref.
RowsOfNode(k, ref) ==
  {r \in NodeRowsOf(k, ref.pid) : r.path = JoinSegs(ref.segs)}

\* C8: the Edge rows of a finalize are the edges of its graph, in order, and
\* each names as source and target the Node row that the same finalize
\* produced for the edge's source and target node.
C8_EdgesReferenceNodeRows ==
  \A k \in DOMAIN flushed :
    LET edges == GraphOf(k).edges IN
    /\ Cardinality(EdgeRows(k)) = Len(edges)
    /\ \A e \in EdgeRows(k) :
         LET edge == edges[e.id - flushed[k].first_edge_id + 1] IN
         /\ \E r \in NodeRows(k) : r.id = e.source_node_id
         /\ \E r \in NodeRows(k) : r.id = e.target_node_id
         /\ RowsOfNode(k, edge.source)
              = {NodeRow(e.source_node_id)}
         /\ RowsOfNode(k, edge.target)
              = {NodeRow(e.target_node_id)}

\* An edge from one process tree into another and an edge into the shared
\* tree were emitted by one finalize.
C8_Witness ==
  \E k \in DOMAIN flushed : \E e1, e2 \in EdgeRows(k) :
    /\ ProcessRow(NodeRow(e1.source_node_id).process_snapshot_id).upid
         # ProcessRow(NodeRow(e1.target_node_id).process_snapshot_id).upid
    /\ ProcessRow(NodeRow(e1.target_node_id).process_snapshot_id).upid
         # UpidOf(context_.processes, kSharedPid)
    /\ ProcessRow(NodeRow(e2.target_node_id).process_snapshot_id).upid
         = UpidOf(context_.processes, kSharedPid)

----------------------------------------------------------------------------
(* C9 *)

\* The inserts of the k-th finalize, in order.
LogOf(k) ==
  SubSeq(context_.log, flushed[k].first_log,
         IF k < Len(flushed) THEN flushed[k + 1].first_log - 1
         ELSE Len(context_.log))

\* C9: a finalize inserts the Snapshot row first, then for each process tree
\* its ProcessSnapshot row followed by the Node rows of that tree, the
\* pseudo-process last among them, and the Edge rows after all Node rows.
C9_InsertionOrder ==
  \A k \in DOMAIN flushed :
    LET log == LogOf(k)
        procs == {i \in DOMAIN log :
                    log[i].table = "process_memory_snapshot_table"}
    IN /\ log[1] = [table |-> "memory_snapshot_table",
                    id |-> flushed[k].snapshot_id]
       /\ \A i \in DOMAIN log :
            i > 1 => log[i].table # "memory_snapshot_table"
       /\ log[2].table = "process_memory_snapshot_table"
       /\ \A i \in DOMAIN log :
            log[i].table = "memory_snapshot_node_table" =>
              \E p \in procs :
                /\ p < i
                /\ \A q \in procs : q < i => q <= p
                /\ NodeRow(log[i].id).process_snapshot_id = log[p].id
       /\ \A i, j \in DOMAIN log :
            i < j /\ log[i].table = "memory_snapshot_edge_table"
              => log[j].table = "memory_snapshot_edge_table"
       /\ \A p \in procs :
            (ProcessRow(log[p].id).upid = UpidOf(context_.processes, kSharedPid))
              <=> (\A q \in procs : q <= p)

\* A finalize emitted two process trees with nodes, a shared tree with a
\* node, and an edge.
C9_Witness ==
  \E k \in DOMAIN flushed :
    /\ Cardinality(ProcessRows(k)) = 3
    /\ \A ps \in ProcessRows(k) :
         \E r \in NodeRows(k) : r.process_snapshot_id = ps.id
    /\ EdgeRows(k) # {}

----------------------------------------------------------------------------
(* C10 *)

\* The paths of the rows above row id, nearest first.
RECURSIVE ParentChain(_)
ParentChain(id) ==
  IF NodeRow(id).parent_node_id = None THEN <<>>
  ELSE <<NodeRow(NodeRow(id).parent_node_id).path>>
         \o ParentChain(NodeRow(id).parent_node_id)

\* The proper prefixes of a path at its "/", longest first.
RECURSIVE PathPrefixes(_)
PathPrefixes(path) ==
  IF ~HasSlash(path) THEN <<>>
  ELSE <<ParentPath(path)>> \o PathPrefixes(ParentPath(path))

\* C10: Node rows of one ProcessSnapshot row with the same parent have
\* different paths, and the rows above a row of path s1/../sn (n > 1) have
\* the paths s1/../s(n-1), .., s1.
C10_SiblingPathsAndAncestry ==
  /\ \A r1, r2 \in Range(context_.memory_snapshot_node_table) :
       /\ r1.id # r2.id
       /\ r1.process_snapshot_id = r2.process_snapshot_id
       /\ r1.parent_node_id = r2.parent_node_id
       => r1.path # r2.path
  /\ \A r \in Range(context_.memory_snapshot_node_table) :
       HasSlash(r.path) => ParentChain(r.id) = PathPrefixes(r.path)

\* One ProcessSnapshot row has two top-level rows and a row with two rows
\* above it.
C10_Witness ==
  \E r1, r2, r3 \in Range(context_.memory_snapshot_node_table) :
    /\ r1.id # r2.id
    /\ r1.process_snapshot_id = r2.process_snapshot_id
    /\ r3.process_snapshot_id = r1.process_snapshot_id
    /\ r1.parent_node_id = None /\ r2.parent_node_id = None
    /\ Len(ParentChain(r3.id)) = 2

----------------------------------------------------------------------------
(* C11 *)

HasValue(entry) == entry.has_value_uint64 \/ entry.has_value_string

RECURSIVE Valued(_)
Valued(wire) ==
  IF wire = <<>> THEN <<>>
  ELSE (IF HasValue(Head(wire)) THEN <<Head(wire)>> ELSE <<>>)
         \o Valued(Tail(wire))

\* The positions (dump, node, entry) of the entries of a chunk without a value.
Malformed(blob) ==
  UNION {UNION {{<<d, n, e>> :
                   e \in {x \in DOMAIN blob.process_memory_dumps[d]
                                         .allocator_dumps[n].entries :
                            ~HasValue(blob.process_memory_dumps[d]
                                          .allocator_dumps[n].entries[x])}} :
                n \in DOMAIN blob.process_memory_dumps[d].allocator_dumps} :
         d \in DOMAIN blob.process_memory_dumps}

RECURSIVE MalformedUpTo(_)
MalformedUpTo(i) ==
  IF i = 0 THEN 0
  ELSE MalformedUpTo(i - 1) + Cardinality(Malformed(calls[i].blob))

\* The entry list a wire node decodes to when only its entries without a
\* value are left out.
ExpectedEntries(n) ==
  LET v == Valued(n.entries)
  IN (IF n.has_size_bytes
        THEN <<[name |-> "size", type |-> "kUInt64",
                value_uint64 |-> n.size_bytes, value_string |-> ""]>>
        ELSE <<>>)
     \o [i \in DOMAIN v |->
           [name |-> v[i].name,
            type |-> IF v[i].has_value_uint64 THEN "kUInt64" ELSE "kString",
            value_uint64 |-> IF v[i].has_value_uint64
                               THEN v[i].value_uint64 ELSE 0,
            value_string |-> IF v[i].has_value_uint64
                               THEN "" ELSE v[i].value_string]]

WithoutUnits(entries) ==
  [i \in DOMAIN entries |->
     [name |-> entries[i].name, type |-> entries[i].type,
      value_uint64 |-> entries[i].value_uint64,
      value_string |-> entries[i].value_string]]

\* C11: the parser-failure counter equals the number of entries without a
\* numeric or string value in all the chunks parsed so far (one per such
\* entry, and nothing else changes it), and every node held in the window
\* is a node of a chunk of the window with exactly its entries that have a
\* value, in their order: the entry without a value is dropped, its siblings,
\* the node and the nodes after it are decoded.
C11_MalformedEntryCountedAndDropped ==
  /\ context_.stats = MalformedUpTo(Len(calls))
  /\ \A pid \in DOMAIN aggregate_raw_nodes_ :
       \E i \in OpenCalls : \E d \in Range(Dumps(i)) :
         /\ d.pid = pid
         /\ DOMAIN aggregate_raw_nodes_[pid].nodes
              = {n.absolute_name : n \in Range(d.allocator_dumps)}
         /\ \A name \in DOMAIN aggregate_raw_nodes_[pid].nodes :
              \E n \in Range(d.allocator_dumps) :
                /\ n.absolute_name = name
                /\ WithoutUnits(aggregate_raw_nodes_[pid].nodes[name].entries)
                     = ExpectedEntries(n)

\* A node with an entry without a value, followed by three entries with one,
\* is in the window with those three, and one failure was counted.
C11_Witness ==
  /\ context_.stats = 1
  /\ 7 \in DOMAIN aggregate_raw_nodes_
  /\ kHeap \in DOMAIN aggregate_raw_nodes_[7].nodes
  /\ [i \in 1..3 |-> aggregate_raw_nodes_[7].nodes[kHeap].entries[i].name]
       = <<"kind", "effective_size", "ticks">>
  /\ Len(aggregate_raw_nodes_[7].nodes[kHeap].entries) = 3

----------------------------------------------------------------------------
(* C12 *)

\* The rows and arguments of the storage, without the history kept beside it.
Tables(ctx) ==
  <<ctx.memory_snapshot_table, ctx.process_memory_snapshot_table,
    ctx.memory_snapshot_node_table, ctx.memory_snapshot_edge_table,
    ctx.args>>

\* C12: a step of NotifyEndOfFile (the only step that ends in "ended") taken
\* with a non-empty window inserts exactly one Snapshot row, carrying the
\* window's timestamp, and leaves the window empty; taken with an empty
\* window (no chunk ever parsed, or right after another NotifyEndOfFile) it
\* changes no table.
C12_NotifyFinalizesOnce ==
  [][pc' = "ended" =>
       IF Empty(aggregate_raw_nodes_)
         THEN /\ Tables(context_') = Tables(context_)
              /\ Empty(aggregate_raw_nodes_')
         ELSE /\ Len(context_'.memory_snapshot_table)
                   = Len(context_.memory_snapshot_table) + 1
              /\ context_'.memory_snapshot_table[
                   Len(context_'.memory_snapshot_table)].timestamp
                   = last_snapshot_timestamp_
              /\ SubSeq(context_'.memory_snapshot_table, 1,
                        Len(context_.memory_snapshot_table))
                   = context_.memory_snapshot_table
              /\ Empty(aggregate_raw_nodes_')]_vars

\* The stream ended and its last window was finalized by NotifyEndOfFile.
C12_Witness ==
  /\ pc = "ended"
  /\ flushed # <<>>
  /\ flushed[Len(flushed)].calls = Len(calls)
  /\ Len(context_.memory_snapshot_table) = Len(flushed)
  /\ Empty(aggregate_raw_nodes_)

----------------------------------------------------------------------------
(* C13 *)

PidsOfCall(i) == {d.pid : d \in Range(Dumps(i))}

\* The chunks of the k-th window have one timestamp and one level of detail,
\* and no process is in two of them.
SplitOfOneSnapshot(k) ==
  \A i, j \in WindowCalls(k) :
    /\ calls[i].ts = calls[j].ts
    /\ DecodeLevelOfDetail(calls[i].blob.level_of_detail)
         = DecodeLevelOfDetail(calls[j].blob.level_of_detail)
    /\ i # j => PidsOfCall(i) \cap PidsOfCall(j) = {}

\* The one chunk that holds the processes of all the chunks of the k-th
\* window.
Unsplit(k) ==
  WireChunk(calls[flushed[k].calls].blob.level_of_detail, WindowDumps(k))

\* C13: when the chunks of a window have the same timestamp and level of
\* detail and pairwise disjoint processes, the window handed to the graph
\* builder at finalize, its timestamp and its level of detail are those of
\* parsing the one chunk that holds the processes of all of them.
C13_SplitIsTransparent ==
  \A k \in DOMAIN flushed :
    SplitOfOneSnapshot(k) =>
      LET one == ReadProtoSnapshot(Unsplit(k), <<>>)
      IN /\ flushed[k].raw_nodes = one.raw_nodes
         /\ flushed[k].level_of_detail = one.level_of_detail
         /\ flushed[k].ts = calls[flushed[k].calls].ts

\* A window of two chunks, each with a process the other lacks, was
\* finalized.
C13_Witness ==
  \E k \in DOMAIN flushed :
    /\ SplitOfOneSnapshot(k)
    /\ \E i, j \in WindowCalls(k) :
         /\ i < j
         /\ PidsOfCall(i) # {} /\ PidsOfCall(j) # {}
         /\ \E n \in Range(Dumps(j)[1].allocator_dumps) :
              n.absolute_name
                \in DOMAIN flushed[k].raw_nodes[Dumps(j)[1].pid].nodes

----------------------------------------------------------------------------
(* C14 *)

----------------------------------------------------------------------------
(* C15 *)

\* The window that reading the chunks of calls lo..hi, in order, into
\* raw_nodes leaves.
RECURSIVE ReadCalls(_, _, _)
ReadCalls(lo, hi, raw_nodes) ==
  IF lo > hi THEN raw_nodes
  ELSE ReadCalls(lo + 1, hi,
                 ReadProtoSnapshot(calls[lo].blob, raw_nodes).raw_nodes)

FirstCall(k) == (IF k = 1 THEN 0 ELSE flushed[k - 1].calls) + 1

\* The positions the names of the dumps of pid in the k-th window stand for,
\* in the tree of pid, or in the shared tree for pid 0.
PositionsOf(k, pid) ==
  UNION {Prefixes(NodeSegs(n.absolute_name)) :
           n \in {m \in UNION {Range(d.allocator_dumps) :
                                 d \in {e \in Range(WindowDumps(k)) :
                                          pid = kSharedPid \/ e.pid = pid}} :
                    IsGlobalName(m.absolute_name) <=> pid = kSharedPid}}

\* The edges (dump, index) of the dumps of the k-th window.
WireEdgesOf(k) ==
  UNION {{<<d, e>> : e \in DOMAIN WindowDumps(k)[d].memory_edges} :
         d \in DOMAIN WindowDumps(k)}

\* C15: every window starts empty: the window handed to a finalize, and the
\* window still open, hold what reading the chunks that arrived since the
\* previous finalize into an empty window gives (so a process and a path of
\* an earlier window are accepted again), and the ProcessSnapshot, Node and
\* Edge rows of a finalize come from the processes, names and edges of the
\* chunks of its own window.
C15_WindowStartsEmpty ==
  /\ aggregate_raw_nodes_
       = ReadCalls(Len(calls) - Cardinality(OpenCalls) + 1, Len(calls), <<>>)
  /\ pc = "ended" => Empty(aggregate_raw_nodes_)
  /\ \A k \in DOMAIN flushed :
       /\ flushed[k].raw_nodes = ReadCalls(FirstCall(k), flushed[k].calls, <<>>)
       /\ {r.upid : r \in ProcessRows(k)}
            = {UpidOf(context_.processes, pid) :
                 pid \in WindowPids(k) \cup {kSharedPid}}
       /\ \A pid \in WindowPids(k) \cup {kSharedPid} :
            \A r \in NodeRowsOf(k, pid) :
              \E segs \in PositionsOf(k, pid) : r.path = JoinSegs(segs)
       /\ Cardinality(EdgeRows(k))
            <= Cardinality(WireEdgesOf(k))

\* Process 7 was in two windows in a row, with "h/b" in the first only: both
\* snapshots have a row for "h", the second has none for "h/b".
C15_Witness ==
  /\ Len(flushed) = 2
  /\ 7 \in WindowPids(1) \cap WindowPids(2)
  /\ kBucket \in DOMAIN flushed[1].raw_nodes[7].nodes
  /\ kHeap \in DOMAIN flushed[2].raw_nodes[7].nodes
  /\ \E r \in NodeRowsOf(1, 7) : r.path = kHeap
  /\ \E r \in NodeRowsOf(2, 7) : r.path = kHeap
  /\ \E r \in NodeRowsOf(1, 7) : r.path = kBucket
  /\ ~\E r \in NodeRowsOf(2, 7) : r.path = kBucket

----------------------------------------------------------------------------
(* C16 *)

ArgsOfRow(r) == {a \in context_.args : a.row = r.id}

IntegerArg(r, key, suffix, value) ==
  \E a \in ArgsOfRow(r) :
    /\ a.key = <<key, suffix>>
    /\ a.value.type = "Integer" /\ a.value.int_value = value

StringArg(r, key, suffix, value) ==
  \E a \in ArgsOfRow(r) :
    /\ a.key = <<key, suffix>>
    /\ a.value.type = "String" /\ a.value.string_value = value

NoArg(r, key, suffix) == ~\E a \in ArgsOfRow(r) : a.key = <<key, suffix>>

IsSizeKey(key) == key = "size" \/ key = "effective_size"

\* What C16 says of entry key of a graph node for the node's row r.
EntryEmitted(r, key, entry) ==
  IF entry.type = "kUInt64"
    THEN IF IsSizeKey(key)
           THEN /\ r[key] = entry.value_uint64
                /\ NoArg(r, key, ".value") /\ NoArg(r, key, ".unit")
           ELSE /\ IntegerArg(r, key, ".value", entry.value_uint64)
                /\ CASE entry.units = 0 -> StringArg(r, key, ".unit", "objects")
                     [] entry.units = 1 -> StringArg(r, key, ".unit", "bytes")
                     [] OTHER -> NoArg(r, key, ".unit")
    ELSE /\ StringArg(r, key, ".value", entry.value_string)
         /\ NoArg(r, key, ".unit")
         /\ IsSizeKey(key) => r[key] = None

\* C16: for every node of the graph of a finalize and every entry of it, the
\* node's row has: for a numeric "size" or "effective_size" the column set
\* and no argument; for another numeric entry the argument "<key>.value" and,
\* only when the unit is objects or bytes, "<key>.unit"; for a string entry
\* "<key>.value" alone, the column of a string "size" or "effective_size"
\* left unset.  The row has no argument besides these.
C16_ColumnsAndArguments ==
  \A k \in DOMAIN flushed :
    LET graph == GraphOf(k) IN
    \A ref \in DeclaredRefs(graph.process_node_graphs,
                             graph.shared_memory_graph) :
      LET entries == TreeOf(graph, ref).entries[ref.segs] IN
      \A r \in RowsOfNode(k, ref) :
        /\ \A key \in DOMAIN entries : EntryEmitted(r, key, entries[key])
        /\ \A a \in ArgsOfRow(r) :
             /\ a.key[1] \in DOMAIN entries
             /\ a.key[2] \in {".value", ".unit"}
        /\ \A key \in {"size", "effective_size"} \ DOMAIN entries :
             r[key] = None

\* One snapshot has a row with a string "size" (argument "size.value", no
\* column) beside a numeric entry in objects; another has a row with a
\* numeric "effective_size" column and a numeric entry of no known unit.
C16_Witness ==
  \E r1, r2 \in Range(context_.memory_snapshot_node_table) :
    /\ r1.path = kBucket /\ r1.size = None
    /\ StringArg(r1, "size", ".value", "big") /\ NoArg(r1, "size", ".unit")
    /\ IntegerArg(r1, "n_objects", ".value", 5)
    /\ StringArg(r1, "n_objects", ".unit", "objects")
    /\ r2.path = kHeap /\ r2.effective_size = 3
    /\ NoArg(r2, "effective_size", ".value")
    /\ IntegerArg(r2, "ticks", ".value", 9) /\ NoArg(r2, "ticks", ".unit")
    /\ StringArg(r2, "kind", ".value", "x") /\ NoArg(r2, "kind", ".unit")

----------------------------------------------------------------------------
(* C17 *)

UnitOfCode(code) ==
  CASE code = 1 -> "bytes"
    [] code = 2 -> "objects"
    [] OTHER -> ""

\* The entries of a decoded node that its wire entries gave.
DeclaredEntries(n, raw) ==
  IF n.has_size_bytes THEN Tail(raw.entries) ELSE raw.entries

\* C17: after a chunk with a level-of-detail code other than 0, 1, 2 the
\* level of the window is detailed (and so is the label of its Snapshot row
\* when that chunk was the window's last); an entry with a unit code other
\* than 1, 2 is in its node with an empty unit.  Neither counts a parser
\* failure (the counter holds the entries without a value only), and the
\* entry, its node and the processes of the chunk are kept.
C17_UnknownCodesDefault ==
  /\ calls # <<>> /\ calls[Len(calls)].blob.level_of_detail \notin {0, 1, 2}
       => last_snapshot_level_of_detail_ = kDetailed
  /\ \A k \in DOMAIN flushed :
       calls[flushed[k].calls].blob.level_of_detail \notin {0, 1, 2}
         => /\ flushed[k].level_of_detail = kDetailed
            /\ context_.memory_snapshot_table[flushed[k].snapshot_id + 1]
                  .detail_level = "detailed"
  /\ context_.stats = MalformedUpTo(Len(calls))
  /\ \A i \in OpenCalls : PidsOfCall(i) \subseteq DOMAIN aggregate_raw_nodes_
  /\ \A pid \in DOMAIN aggregate_raw_nodes_ :
       \E i \in OpenCalls : \E d \in Range(Dumps(i)) :
         /\ d.pid = pid
         /\ \A n \in Range(d.allocator_dumps) :
              n.absolute_name \in DOMAIN aggregate_raw_nodes_[pid].nodes
         /\ \A name \in DOMAIN aggregate_raw_nodes_[pid].nodes :
              \E n \in Range(d.allocator_dumps) :
                LET v == Valued(n.entries)
                    got == DeclaredEntries(n,
                             aggregate_raw_nodes_[pid].nodes[name])
                IN /\ n.absolute_name = name
                   /\ Len(got) = Len(v)
                   /\ \A j \in DOMAIN v :
                        /\ got[j].name = v[j].name
                        /\ got[j].units = UnitOfCode(v[j].units)

\* A chunk with level code 3 was read after a light one into a window that
\* holds an entry with unit code 3: the level is detailed, the entry is there
\* with an empty unit, the processes of the chunk are in the window, and the
\* one failure counted is the entry without a value.
C17_Witness ==
  /\ Len(calls) = 3
  /\ calls[3].blob.level_of_detail = 3
  /\ calls[2].blob.level_of_detail = 1
  /\ last_snapshot_level_of_detail_ = kDetailed
  /\ DOMAIN aggregate_raw_nodes_ = {7, 8}
  /\ kHeap \in DOMAIN aggregate_raw_nodes_[7].nodes
  /\ \E e \in Range(aggregate_raw_nodes_[7].nodes[kHeap].entries) :
       e.name = "ticks" /\ e.units = ""
  /\ context_.stats = 1

----------------------------------------------------------------------------
(* C18 *)

\* The Snapshot, ProcessSnapshot, Node and Edge tables.
RowTables(ctx) ==
  <<ctx.memory_snapshot_table, ctx.process_memory_snapshot_table,
    ctx.memory_snapshot_node_table, ctx.memory_snapshot_edge_table>>

\* The step is a call of ParseMemoryTrackerSnapshot that read its chunk.
IsParseStep == calls' # calls

\* C18: a parse step with the timestamp of the window, and a parse step
\* taken while the window is empty, leave the Snapshot, ProcessSnapshot, Node
\* and Edge tables as they are; a step that changes one of them is a parse
\* step with a timestamp other than that of a non-empty window, or a step of
\* NotifyEndOfFile.
C18_RowsOnlyOnFlush ==
  [][/\ IsParseStep
        /\ \/ calls'[Len(calls')].ts = last_snapshot_timestamp_
           \/ Empty(aggregate_raw_nodes_)
        => RowTables(context_') = RowTables(context_)
     /\ RowTables(context_') # RowTables(context_)
        => \/ pc' = "ended"
           \/ /\ IsParseStep
              /\ ~Empty(aggregate_raw_nodes_)
              /\ calls'[Len(calls')].ts # last_snapshot_timestamp_]_vars

\* Two chunks with one timestamp were parsed, the first into the empty
\* window and the second into the window that held its process; no table has
\* a row.
C18_Witness ==
  /\ Len(calls) = 2
  /\ calls[1].ts = calls[2].ts
  /\ PidsOfCall(1) # {} /\ PidsOfCall(2) # {}
  /\ ~Empty(aggregate_raw_nodes_)
  /\ RowTables(context_) = <<<<>>, <<>>, <<>>, <<>>>>

----------------------------------------------------------------------------
(* C19 *)

\* C19: every process held in the window was read from a chunk that arrived
\* since the last finalize with the stored last timestamp, and every chunk
\* since the last finalize that carried a process has that timestamp; the
\* timestamp of every Snapshot row is the timestamp of every chunk with a
\* process in its window.  This holds whatever the order of the timestamps.
C19_WindowHasOneTimestamp ==
  /\ \A pid \in DOMAIN aggregate_raw_nodes_ :
       \E i \in OpenCalls :
         /\ calls[i].ts = last_snapshot_timestamp_
         /\ pid \in PidsOfCall(i)
         /\ aggregate_raw_nodes_[pid]
              = ReadProtoSnapshot(calls[i].blob, <<>>).raw_nodes[pid]
  /\ \A i \in OpenCalls :
       PidsOfCall(i) # {} => calls[i].ts = last_snapshot_timestamp_
  /\ \A k \in DOMAIN flushed : \A i \in WindowCalls(k) :
       PidsOfCall(i) # {} =>
         /\ calls[i].ts = flushed[k].ts
         /\ flushed[k].snapshot_id + 1 \in DOMAIN context_.memory_snapshot_table
         /\ calls[i].ts
              = context_.memory_snapshot_table[flushed[k].snapshot_id + 1]
                  .timestamp

\* Without the debug assertion, a chunk with timestamp 0 arrived while the
\* window held a process of timestamp 1: the window was flushed with
\* timestamp 1 and the new window holds the chunk's process alone.
C19_Witness ==
  /\ ~dcheck_is_on
  /\ Len(calls) = 2
  /\ calls[1].ts = 1 /\ calls[2].ts = 0
  /\ PidsOfCall(1) = {7} /\ PidsOfCall(2) = {8}
  /\ Len(flushed) = 1
  /\ context_.memory_snapshot_table[1].timestamp = 1
  /\ DOMAIN flushed[1].raw_nodes = {7}
  /\ DOMAIN aggregate_raw_nodes_ = {8}
  /\ last_snapshot_timestamp_ = 0

----------------------------------------------------------------------------
(* C20 *)

\* C20: when the chunks arrived with non-decreasing timestamps, a Snapshot
\* row inserted after another carries a greater timestamp.
C20_SnapshotTimestampsIncrease ==
  Sorted(calls) =>
    \A i, j \in DOMAIN context_.memory_snapshot_table :
      i < j => context_.memory_snapshot_table[i].timestamp
                 < context_.memory_snapshot_table[j].timestamp

\* Three chunks with timestamps 0, 0, 1, each with a process, gave two
\* Snapshot rows.
C20_Witness ==
  /\ Len(calls) = 3 /\ Sorted(calls)
  /\ calls[1].ts = calls[2].ts /\ calls[2].ts < calls[3].ts
  /\ \A i \in 1..3 : PidsOfCall(i) # {}
  /\ Len(context_.memory_snapshot_table) = 2
  /\ context_.memory_snapshot_table[1].timestamp = calls[1].ts
  /\ context_.memory_snapshot_table[2].timestamp = calls[3].ts

====
